---- MODULE Spec2Model ----
(***************************************************************************)
(* Real-time telemetry fan-out of the vehicle-diagnostics backend:         *)
(*   - the connection registry `vehicleConnections` (src/src/server.js),   *)
(*     a JS Map from vehicle identifier to a Set of socket ids, mutated by *)
(*     the socket.io handlers subscribe-vehicle, unsubscribe-vehicle and   *)
(*     disconnect;                                                         *)
(*   - the two ingest handlers: REST POST / (src/src/routes/               *)
(*     performanceData.js) and the socket message 'performance-data'       *)
(*     (src/src/server.js), each suspended once while awaiting the         *)
(*     persistence gateway.                                                *)
(* Node runs every handler to completion or to its next await, so every    *)
(* action below is one such run.                                           *)
(***************************************************************************)
EXTENDS Integers, Sequences, FiniteSets, Bags, TLC

\* ------------------------------------------------------------------ bounds
MaxConns == 2
MaxReqs == 2
\* requests to the DTC, vehicle and upload routes in flight at a time
MaxCalls == 2
\* rows of vehicle_dtcs
MaxRows == 3

Conns == 1..MaxConns

\* ------------------------------------------------------------ JS values
\* A JS value a client can send as vehicle identifier: <<typeof, text>>,
\* text being the value rendered by a template literal.
Missing == <<"undefined", "undefined">>
\* The 'performance-data' message sent without a data object.
NoData == <<"nodata", "undefined">>
VehicleIds == {<<"string", "uuid-1">>, <<"string", "uuid-2">>}
Payloads == VehicleIds \cup {Missing}
\* subscribe-vehicle can also be sent with the empty string as identifier.
EmptyString == <<"string", "">>
SubscribePayloads == Payloads \cup {EmptyString}

\* The 'performance-data' messages: data.vehicle_id present, missing, or no
\* data object at all.
SocketSamples == {<<"string", "uuid-1">>, Missing, NoData}
\* The bodies POSTed to /api/data: vehicle_id present or missing.
RestSamples == {<<"string", "uuid-1">>, Missing}

\* One instrument reading of a sample (rpm stands for the eight readings,
\* which the handlers treat alike): absent, null, the number 0, a number.
Absent == Missing
Null == <<"object", "null">>
Zero == <<"number", "0">>
Rpm2500 == <<"number", "2500">>
Readings == {Absent, Null, Zero, Rpm2500}
\* The field of a row that no handler has prepared.
NotPrepared == <<"none", "none">>

\* Clock readings: what new Date().toISOString() returns in the server and
\* what the database writes into the timestamp column of a stored row.
NoInstant == "none"
Instants == {"T1", "T2"}

\* Variant of Truthy: the guard on the identifier lets every value pass.
TruthyAlways(p) == TRUE

\* JS truthiness of a payload: undefined, null, 0 and the empty string are
\* falsy.
Truthy(p) == p[1] # "undefined" /\ p # Null /\ p # Zero /\ p[2] # ""

\* Variant of OrNull: the default of a falsy reading is 0.
OrZero(x) == IF Truthy(x) THEN x ELSE Zero

\* rpm || null
OrNull(x) == IF Truthy(x) THEN x ELSE Null

\* The bearer token of a request: none, or one supabase.auth.getUser accepts.
NoToken == Missing
ValidToken == <<"string", "jwt">>
Tokens == {NoToken, ValidToken}

\* The middleware of router.post('/') in front of the handler.
PostMiddleware == <<"validateRequest">>

\* authenticateToken answers 401 unless the token is one getUser accepts; it
\* acts on a request only where the route lists it.
PassesAuth(token) ==
  (\E i \in 1..Len(PostMiddleware) : PostMiddleware[i] = "authenticateToken") =>
    token = ValidToken

\* Joi.number(): a number passes, an absent key passes, null does not.
IsValidReading(p) == p = Absent \/ p[1] = "number"

\* `vehicle-${vehicleId}`
RoomName(p) == <<"vehicle-", p[2]>>

\* Variant of IsValidVehicleId: the schema accepts any vehicle_id.
IsValidVehicleIdAny(p) == TRUE

\* Joi.string().uuid().required()
IsValidVehicleId(p) == p[1] = "string" /\ p[2] \in {"uuid-1", "uuid-2"}

\* ------------------------------------------------------------- JS Map
\* A Map is the sequence of its entries in insertion order.
MapHas(m, k) == \E i \in 1..Len(m) : m[i].key = k
MapIndex(m, k) == CHOOSE i \in 1..Len(m) : m[i].key = k
MapGet(m, k) == m[MapIndex(m, k)].val
MapSet(m, k, v) ==
  IF MapHas(m, k) THEN [m EXCEPT ![MapIndex(m, k)].val = v]
  ELSE Append(m, [key |-> k, val |-> v])
MapDelete(m, k) == SelectSeq(m, LAMBDA e : e.key # k)
MapKeys(m) == {m[i].key : i \in 1..Len(m)}

\* subscribersOf(vehicleId): the set for the key, empty when there is none.
SubscribersOf(m, k) == IF MapHas(m, k) THEN MapGet(m, k) ELSE {}

VARIABLES
  vehicleConnections, \* the registry Map: vehicle id -> Set of socket.id
  rooms,              \* socket.io rooms: set of <<room name, socket id>>
  sockets,            \* socket id -> "new" | "open" | "closed"
  reqs,               \* ingest calls in flight: the bag of their closures
  lastOp,             \* history: vehicle id -> socket id -> "sub" | "unsub",
                      \*   the last registry event of that socket for that vehicle
  last,               \* observation: what the handler run of the step just
                      \*   taken did (ingest answered, socket disconnected)
  arrival,            \* history, kept by WindowSpec only: the subscriber set
                      \*   of the vehicle when the POST in flight arrived
  vehicles,           \* table vehicles: the ids of its rows
  dtcs,               \* table vehicle_dtcs: the set of its rows
  storage,            \* bucket uploads: the paths of its objects
  files,              \* table files: the set of its rows
  pending             \* requests to the DTC, vehicle and upload routes in
                      \*   flight: the bag of their handlers' closures

vars == <<vehicleConnections, rooms, sockets, reqs, lastOp, last, arrival,
          vehicles, dtcs, storage, files, pending>>

\* What the fan-out handlers leave alone, and what the DTC, vehicle and
\* upload routes leave alone.
crud == <<vehicles, dtcs, storage, files, pending>>
aside == <<arrival, crud>>
fanout == <<vehicleConnections, rooms, sockets, reqs, lastOp, arrival>>

\* --------------------------------------------------- registry operations
\* Variant of SubscribeRegistry: the add sits inside the "key is new" branch.
SubscribeRegistryAddOnlyNew(m, vehicleId, id) ==
  IF ~MapHas(m, vehicleId) THEN MapSet(m, vehicleId, {id}) ELSE m

\* subscribe-vehicle, registry part:
\*   if (!vehicleConnections.has(vehicleId)) vehicleConnections.set(vehicleId, new Set());
\*   vehicleConnections.get(vehicleId).add(socket.id);
SubscribeRegistry(m, vehicleId, id) ==
  LET m1 == IF ~MapHas(m, vehicleId) THEN MapSet(m, vehicleId, {}) ELSE m
  IN  MapSet(m1, vehicleId, MapGet(m1, vehicleId) \cup {id})

\* Variant of CleanupIfEmpty: the empty set is left in the Map.
CleanupNever(m, vehicleId) == m

\* Variant of CleanupIfEmpty: the decision is taken on a size that misses a
\* member added in between, so a set with one member is deleted too.
CleanupOnStaleSize(m, vehicleId) ==
  IF Cardinality(MapGet(m, vehicleId)) <= 1 THEN MapDelete(m, vehicleId) ELSE m

\* if (connections.size === 0) vehicleConnections.delete(vehicleId);
CleanupIfEmpty(m, vehicleId) ==
  IF Cardinality(MapGet(m, vehicleId)) = 0 THEN MapDelete(m, vehicleId) ELSE m

\* Variant of UnsubscribeRegistry: a vehicle without entry gets an empty one.
UnsubscribeRegistryCreatesKey(m, vehicleId, id) ==
  IF MapHas(m, vehicleId)
  THEN CleanupIfEmpty(MapSet(m, vehicleId, MapGet(m, vehicleId) \ {id}), vehicleId)
  ELSE MapSet(m, vehicleId, {})

\* Variant of UnsubscribeRegistry: connections.delete(socket.id) is missing.
UnsubscribeRegistryKeepsMember(m, vehicleId, id) ==
  IF MapHas(m, vehicleId) THEN CleanupIfEmpty(m, vehicleId) ELSE m

\* Variant of UnsubscribeRegistry: the key is deleted whatever the set holds.
UnsubscribeRegistryDropsKey(m, vehicleId, id) ==
  IF MapHas(m, vehicleId) THEN MapDelete(m, vehicleId) ELSE m

\* unsubscribe-vehicle, registry part:
\*   const connections = vehicleConnections.get(vehicleId);
\*   if (connections) { connections.delete(socket.id); if (size === 0) delete key }
UnsubscribeRegistry(m, vehicleId, id) ==
  IF MapHas(m, vehicleId)
  THEN CleanupIfEmpty(MapSet(m, vehicleId, MapGet(m, vehicleId) \ {id}), vehicleId)
  ELSE m

\* The callback of the disconnect handler's forEach, for the entry of key k.
DropCallback(m, k, id) ==
  IF id \in MapGet(m, k)
  THEN CleanupIfEmpty(MapSet(m, k, MapGet(m, k) \ {id}), k)
  ELSE m

\* Map.prototype.forEach over the live Map: the entries are walked in
\* insertion order; an entry deleted by the callback is not visited again and
\* the walk goes on with the entry that followed it.  `entries` is the entry
\* list at the start of the walk, i the position in it.
RECURSIVE ForEachDrop(_, _, _, _)
ForEachDrop(m, entries, i, id) ==
  IF i > Len(entries) THEN m
  ELSE IF ~MapHas(m, entries[i].key) THEN ForEachDrop(m, entries, i + 1, id)
  ELSE ForEachDrop(DropCallback(m, entries[i].key, id), entries, i + 1, id)

\* A walk by index over the shrinking entry list: after a deletion the entry
\* that moved into position i is stepped over.
RECURSIVE ForEachDropByIndex(_, _, _)
ForEachDropByIndex(m, i, id) ==
  IF i > Len(m) THEN m
  ELSE ForEachDropByIndex(DropCallback(m, m[i].key, id), i + 1, id)

\* Variant of DisconnectRegistry: deleting while iterating skips an entry.
DisconnectRegistrySkipsAfterDelete(m, id) == ForEachDropByIndex(m, 1, id)

\* Variant of DisconnectRegistry: the membership test is inverted, so the
\* socket id is never removed.
DisconnectRegistryNoRemoval(m, id) == m

\* disconnect: vehicleConnections.forEach((connections, vehicleId) => {...})
DisconnectRegistry(m, id) == ForEachDrop(m, m, 1, id)

\* ------------------------------------------------------------ ingest calls
NoConn == 0

\* The closure of a handler that has just been called.  hadDrop is history:
\* a subscriber of the call's vehicle disconnected while the call was
\* suspended.
\* rpm is the reading as destructured from the input, row the rpm field of
\* performanceData, the row handed to the insert.
\* token is the bearer token of the request's Authorization header.
NewCall(via, from, vid, rpm, token) ==
  [via |-> via, from |-> from, vid |-> vid, writes |-> 0, hadDrop |-> FALSE,
   rpm |-> rpm, row |-> NotPrepared, token |-> token]

\* POST /: const performanceData = { vehicle_id, rpm, ... }
PrepareRest(req) == [req EXCEPT !.row = req.rpm]

\* 'performance-data': const performanceData = { vehicle_id, rpm: rpm || null, ... }
PrepareSocket(req) == [req EXCEPT !.row = OrNull(req.rpm)]

\* The number of copies of call k in bag B.
Copies(B, k) == IF k \in DOMAIN B THEN B[k] ELSE 0

\* The bag B with hadDrop set in every suspended POST / call for a vehicle
\* that has socket id in its set in registry m.
MarkDropped(B, m, id) ==
  LET Hit(k) == k.via = "rest" /\ id \in SubscribersOf(m, k.vid)
      F(k) == IF Hit(k) THEN [k EXCEPT !.hadDrop = TRUE] ELSE k
  IN  [x \in {F(k) : k \in DOMAIN B} |->
         IF Hit(x) /\ x.hadDrop
         THEN Copies(B, x) + Copies(B, [x EXCEPT !.hadDrop = FALSE])
         ELSE B[x]]

\* Nothing to observe: the step just taken ran no handler to its end.  For a
\* registry handler `resp` holds the event it emitted to its socket and
\* removedFrom the vehicles whose set it took the socket id out of.
NoLast ==
  [kind |-> "none", id |-> NoConn, vid |-> Missing, outcome |-> "none",
   writes |-> 0, resp |-> <<>>, respBeforeBroadcast |-> <<>>,
   visited |-> {}, sent |-> [c \in Conns |-> 0], raised |-> FALSE,
   hadDrop |-> FALSE, removedFrom |-> {},
   rpm |-> NotPrepared, row |-> NotPrepared, stored |-> NoInstant,
   message |-> <<>>]

\* The observation of an ingest call that is about to finish, from its
\* closure and from what the awaited insert resolved to: on success `data`,
\* the stored row, whose timestamp column is storedAt.
Run(req, outcome, storedAt) ==
  [NoLast EXCEPT !.kind = req.via, !.id = req.from, !.vid = req.vid,
                 !.outcome = outcome, !.writes = req.writes,
                 !.hadDrop = req.hadDrop, !.rpm = req.rpm, !.row = req.row,
                 !.stored = IF outcome = "ok" THEN storedAt ELSE NoInstant]

\* WebSocket.OPEN of the ws package
WebSocketOPEN == "OPEN"
Undefined == "undefined"

\* ws.readyState where ws is a member of a registry Set.  The members are
\* socket.id strings (server.js:100), and a string has no readyState property.
ReadyState(ws) == Undefined

\* Variant of SendGuard: the readyState test is dropped.
SendGuardAlways(ws) == TRUE

\* if (ws.readyState === WebSocket.OPEN)
SendGuard(ws) == ReadyState(ws) = WebSocketOPEN

\* ws.send(message) where ws is a socket.id string: a string has no method
\* send, the call throws TypeError.
SendThrows(ws) == TRUE

\* connections.forEach(ws => { if (guard) ws.send(message) }) over the Set
\* `todo`; b is [visited, sent, threw].  The walk stops at the first throw.
RECURSIVE ForEachSend(_, _)
ForEachSend(todo, b) ==
  IF todo = {} \/ b.threw THEN b
  ELSE LET ws == CHOOSE x \in todo : \A y \in todo : x <= y
           b1 == [b EXCEPT !.visited = @ \cup {ws}]
           b2 == IF SendGuard(ws)
                 THEN IF SendThrows(ws) THEN [b1 EXCEPT !.threw = TRUE]
                      ELSE [b1 EXCEPT !.sent[ws] = @ + 1]
                 ELSE b1
       IN  ForEachSend(todo \ {ws}, b2)

\* Variant of Broadcast: the walk is over the set the vehicle had when the
\* request arrived.
BroadcastAtArrival(m, vehicle_id) ==
  LET b0 == [visited |-> {}, sent |-> [c \in Conns |-> 0], threw |-> FALSE]
  IN  IF arrival # {} THEN ForEachSend(arrival, b0) ELSE b0

\* The broadcast step of POST /:
\*   const connections = vehicleConnections.get(vehicle_id);
\*   if (connections && connections.size > 0) { ...forEach... }
Broadcast(m, vehicle_id) ==
  LET b0 == [visited |-> {}, sent |-> [c \in Conns |-> 0], threw |-> FALSE]
  IN  IF MapHas(m, vehicle_id) /\ Cardinality(MapGet(m, vehicle_id)) > 0
      THEN ForEachSend(MapGet(m, vehicle_id), b0)
      ELSE b0

\* Variant of IssueInsert: the insert is issued a second time.
IssueInsertTwice(req) == [req EXCEPT !.writes = @ + 2]

\* await supabase.from('vehicle_performance_data').insert([performanceData])
\*   .select().single(): one write attempt, then the handler is suspended.
IssueInsert(req) == [req EXCEPT !.writes = @ + 1]

\* A call of a response helper (res.status(code).json(body)) or, on the socket
\* path, a socket.emit to the sender.
Respond(run, what) == [run EXCEPT !.resp = Append(@, what)]

\* JSON.stringify({ timestamp: new Date().toISOString(), ...performanceData })
\* with the clock reading `now`; a key whose value is undefined is left out,
\* which is the reading Absent.
Message(run, now) == [timestamp |-> now, vehicle_id |-> run.vid, rpm |-> run.row]

\* POST /, persistence succeeded:
\*   createdResponse(res, ..., data); then the broadcast step; an exception of
\*   the broadcast step lands in the catch block, which calls errorResponse.
\* The message is built when the vehicle has a non-empty set.
RestSuccessBranch(run, m, now) ==
  LET r1 == Respond(run, "201")
      b  == Broadcast(m, run.vid)
      r2 == [r1 EXCEPT !.visited = b.visited, !.sent = b.sent,
                       !.raised = b.threw, !.respBeforeBroadcast = r1.resp,
                       !.message =
                         IF MapHas(m, run.vid) /\ Cardinality(MapGet(m, run.vid)) > 0
                         THEN <<Message(run, now)>> ELSE <<>>]
  IN  IF b.threw THEN Respond(r2, "500") ELSE r2

\* Variant of RestErrorBranch: the `return` is missing, the handler goes on
\* with the success path.
RestErrorBranchFallsThrough(run, m, now) ==
  RestSuccessBranch(Respond(run, "500"), m, now)

\* POST /, if (error) { return errorResponse(res, 500, ...) }
RestErrorBranch(run, m, now) == Respond(run, "500")

\* POST /, catch (error) { errorResponse(res, 500, ...) } for a rejected insert
RestCatch(run) == [Respond(run, "500") EXCEPT !.raised = TRUE]

\* POST /, the handler from the resolution of the awaited insert to its end
RestContinue(run, m, now) ==
  IF run.outcome = "throw" THEN RestCatch(run)
  ELSE IF run.outcome = "error" THEN RestErrorBranch(run, m, now)
  ELSE RestSuccessBranch(run, m, now)

\* 'performance-data', the handler from the resolution of the awaited insert
\* to its end: data-error on error and in the catch block, else data-stored.
SocketContinue(run) ==
  IF run.outcome = "throw"
  THEN [Respond(run, "data-error") EXCEPT !.raised = TRUE]
  ELSE IF run.outcome = "error" THEN Respond(run, "data-error")
  ELSE Respond(run, "data-stored")

\* What the persistence gateway can answer: the stored row, an error object,
\* or a rejected promise.
Outcomes == {"ok", "error", "throw"}

\* At most MaxReqs calls are in flight at a time.
CanStart == BagCardinality(reqs) < MaxReqs
Suspend(req) == reqs (+) SetToBag({req})
\* Variant of Finish: the end of one call drops every suspended call.
FinishAll(req) == EmptyBag

Finish(req) == reqs (-) SetToBag({req})

\* ------------------------------------------- DTC, vehicle, upload routes
\* The rows of table vehicles the server starts with, the DTC code of the
\* requests, and the paths `${folder}/${uuidv4()}${ext}` of uploaded objects.
Vehicles == {"v1"}
DtcCodes == {"P0300"}
Paths == {"general/f1", "general/f2"}

\* What the gateway answers to a write: done, or an error object.
WriteOutcomes == {"ok", "error"}

\* .single(): the row when exactly one row matches, else no data.
Single(rows) == IF Cardinality(rows) = 1 THEN rows ELSE {}

\* .from('vehicle_dtcs').select('id').eq('vehicle_id', v).eq('dtc_code', code)
\*   .eq('status', 'active')
ActiveDtcs(v, code) ==
  {r \in dtcs : r.vehicle_id = v /\ r.dtc_code = code /\ r.status = "active"}

\* .from('vehicle_dtcs').select('id').eq('vehicle_id', id).eq('status', 'active')
ActiveDtcsOf(v) == {r \in dtcs : r.vehicle_id = v /\ r.status = "active"}

\* A handler answers its request and ends.
Answer(call, code) ==
  /\ last' = [NoLast EXCEPT !.kind = call.op, !.resp = <<code>>]
  /\ pending' = pending (-) SetToBag({call})

\* A handler goes on to its next await.
Await(call, pc) ==
  /\ last' = NoLast
  /\ pending' = (pending (-) SetToBag({call})) (+) SetToBag({[call EXCEPT !.pc = pc]})

\* A request arrives and its handler runs to its first await.
Arrive(call) ==
  /\ BagCardinality(pending) < MaxCalls
  /\ last' = NoLast
  /\ pending' = pending (+) SetToBag({call})

\* ------------------------------------------------------------------- Init
Init ==
  /\ vehicleConnections = <<>>
  /\ rooms = {}
  /\ sockets = [c \in Conns |-> "new"]
  /\ reqs = EmptyBag
  /\ lastOp = [v \in VehicleIds |-> [c \in Conns |-> "unsub"]]
  /\ last = NoLast
  /\ arrival = {}
  /\ vehicles = Vehicles
  /\ dtcs = {}
  /\ storage = {}
  /\ files = {}
  /\ pending = EmptyBag

\* ---------------------------------------------------------------- actions
\* io.on('connection'): a client connects and gets a fresh socket id.
Connect(c) ==
  /\ sockets[c] = "new"
  /\ \A d \in Conns : d < c => sockets[d] # "new"
  /\ sockets' = [sockets EXCEPT ![c] = "open"]
  /\ last' = NoLast
  /\ UNCHANGED <<vehicleConnections, rooms, reqs, lastOp>>

\* socket.on('subscribe-vehicle', vehicleId)
SubscribeVehicle(c, vehicleId) ==
  /\ sockets[c] = "open"
  /\ IF ~Truthy(vehicleId)
     THEN /\ last' = [NoLast EXCEPT !.kind = "subscribe", !.id = c,
                        !.vid = vehicleId, !.resp = <<"error">>]
          /\ UNCHANGED <<vehicleConnections, rooms, lastOp>>
     ELSE /\ rooms' = rooms \cup {<<RoomName(vehicleId), c>>}
          /\ vehicleConnections' = SubscribeRegistry(vehicleConnections, vehicleId, c)
          /\ lastOp' = [lastOp EXCEPT ![vehicleId][c] = "sub"]
          /\ last' = [NoLast EXCEPT !.kind = "subscribe", !.id = c,
                        !.vid = vehicleId, !.resp = <<"subscribed">>]
  /\ UNCHANGED <<sockets, reqs>>

\* socket.on('unsubscribe-vehicle', vehicleId)
UnsubscribeVehicle(c, vehicleId) ==
  /\ sockets[c] = "open"
  /\ IF Truthy(vehicleId)
     THEN /\ rooms' = rooms \ {<<RoomName(vehicleId), c>>}
          /\ vehicleConnections' = UnsubscribeRegistry(vehicleConnections, vehicleId, c)
          /\ lastOp' = [lastOp EXCEPT ![vehicleId][c] = "unsub"]
          /\ last' = [NoLast EXCEPT !.kind = "unsubscribe", !.id = c,
                        !.vid = vehicleId, !.resp = <<"unsubscribed">>,
                        !.removedFrom =
                          IF c \in SubscribersOf(vehicleConnections, vehicleId)
                          THEN {vehicleId} ELSE {}]
     ELSE /\ last' = [NoLast EXCEPT !.kind = "unsubscribe", !.id = c,
                        !.vid = vehicleId]
          /\ UNCHANGED <<vehicleConnections, rooms, lastOp>>
  /\ UNCHANGED <<sockets, reqs>>

\* socket.on('disconnect'): socket.io has already taken the socket out of its
\* rooms; the handler removes the socket id from every registry set.
Disconnect(c) ==
  /\ sockets[c] = "open"
  /\ sockets' = [sockets EXCEPT ![c] = "closed"]
  /\ rooms' = {x \in rooms : x[2] # c}
  /\ vehicleConnections' = DisconnectRegistry(vehicleConnections, c)
  /\ lastOp' = [v \in VehicleIds |-> [lastOp[v] EXCEPT ![c] = "unsub"]]
  /\ reqs' = MarkDropped(reqs, vehicleConnections, c)
  /\ last' = [NoLast EXCEPT !.kind = "disconnect", !.id = c,
                !.removedFrom = {v \in VehicleIds :
                                   c \in SubscribersOf(vehicleConnections, v)}]

\* POST /api/data with body.vehicle_id = vehicle_id and body.rpm = rpm, up to
\* the await.  validateRequest(createPerformanceDataSchema) answers 400 and
\* does not call the handler when the body is invalid.
RestPost(vehicle_id, rpm, token) ==
  /\ CanStart
  /\ LET req == NewCall("rest", NoConn, vehicle_id, rpm, token)
     IN  IF ~PassesAuth(token)
         THEN /\ last' = Respond(Run(req, "invalid", NoInstant), "401")
              /\ UNCHANGED reqs
         ELSE IF IsValidVehicleId(vehicle_id) /\ IsValidReading(rpm)
         THEN /\ reqs' = Suspend(IssueInsert(PrepareRest(req)))
              /\ last' = NoLast
         ELSE /\ last' = Respond(Run(req, "invalid", NoInstant), "400")
              /\ UNCHANGED reqs
  /\ UNCHANGED <<vehicleConnections, rooms, sockets, lastOp>>

\* POST /api/data from the resolution of the awaited insert to the end.  The
\* database stamped the row at storedAt; the server's clock reads `now` when
\* the message is built.
RestResume(req, outcome, storedAt, now) ==
  /\ BagIn(req, reqs)
  /\ req.via = "rest"
  /\ last' = RestContinue(Run(req, outcome, storedAt), vehicleConnections, now)
  /\ reqs' = Finish(req)
  /\ UNCHANGED <<vehicleConnections, rooms, sockets, lastOp>>

\* socket.on('performance-data', data) with data.vehicle_id = vehicle_id and
\* data.rpm = rpm (or data itself missing: NoData, and then no rpm either),
\* up to the await.
PerformanceData(c, vehicle_id, rpm) ==
  /\ sockets[c] = "open"
  /\ CanStart
  /\ vehicle_id = NoData => rpm = Absent
  /\ LET req == NewCall("socket", c, vehicle_id, rpm, NoToken)
     IN  IF vehicle_id = NoData
         THEN \* const { vehicle_id, ... } = data throws, the catch block answers
              /\ last' = [Respond(Run(req, "invalid", NoInstant), "data-error")
                             EXCEPT !.raised = TRUE]
              /\ UNCHANGED reqs
         ELSE IF ~Truthy(vehicle_id)
         THEN /\ last' = Respond(Run(req, "invalid", NoInstant), "data-error")
              /\ UNCHANGED reqs
         ELSE /\ reqs' = Suspend(IssueInsert(PrepareSocket(req)))
              /\ last' = NoLast
  /\ UNCHANGED <<vehicleConnections, rooms, sockets, lastOp>>

\* 'performance-data' from the resolution of the awaited insert to the end
\* (the handler never reads insertedData, the stored row).
PerformanceDataResume(req, outcome) ==
  /\ BagIn(req, reqs)
  /\ req.via = "socket"
  /\ last' = SocketContinue(Run(req, outcome, NoInstant))
  /\ reqs' = Finish(req)
  /\ UNCHANGED <<vehicleConnections, rooms, sockets, lastOp>>

\* Every interleaving of the registry handlers and the ingest calls, each
\* sample with the reading Rpm2500, each POST with a valid token, and each
\* stored row stamped T1 and broadcast at T2; SampleNext below varies the
\* readings, the tokens and the clocks.
Next ==
  \/ /\ \E c \in Conns : Connect(c)
     /\ UNCHANGED aside
  \/ /\ \E c \in Conns, p \in SubscribePayloads : SubscribeVehicle(c, p)
     /\ UNCHANGED aside
  \/ /\ \E c \in Conns, p \in Payloads : UnsubscribeVehicle(c, p)
     /\ UNCHANGED aside
  \/ /\ \E c \in Conns : Disconnect(c)
     /\ UNCHANGED aside
  \/ /\ \E p \in RestSamples : RestPost(p, Rpm2500, ValidToken)
     /\ UNCHANGED aside
  \/ /\ \E req \in BagToSet(reqs), o \in Outcomes : RestResume(req, o, "T1", "T2")
     /\ UNCHANGED aside
  \/ /\ \E c \in Conns, p \in SocketSamples :
          PerformanceData(c, p, IF p = NoData THEN Absent ELSE Rpm2500)
     /\ UNCHANGED aside
  \/ /\ \E req \in BagToSet(reqs), o \in Outcomes : PerformanceDataResume(req, o)
     /\ UNCHANGED aside

Spec == Init /\ [][Next]_vars

\* The ingest handlers for one vehicle with every reading, every token and
\* every pair of clock readings, its subscribers coming and staying.
SampleVehicle == <<"string", "uuid-1">>
\* A vehicle_id that is a string but no UUID.
NotUuid == <<"string", "abc">>
\* The vehicle_id values of the samples: valid, absent, empty, not a UUID.
SampleIds == {SampleVehicle, Missing, EmptyString, NotUuid}
SampleNext ==
  \/ /\ \E c \in Conns : Connect(c)
     /\ UNCHANGED aside
  \/ /\ \E c \in Conns : SubscribeVehicle(c, SampleVehicle)
     /\ UNCHANGED aside
  \/ /\ \E p \in SampleIds, r \in Readings, t \in Tokens :
          (p # SampleVehicle => r = Rpm2500 /\ t = ValidToken) /\ RestPost(p, r, t)
     /\ UNCHANGED aside
  \/ /\ \E req \in BagToSet(reqs), o \in Outcomes, s, n \in Instants :
          RestResume(req, o, s, n)
     /\ UNCHANGED aside
  \/ /\ \E c \in Conns, p \in {SampleVehicle, Missing, EmptyString}, r \in Readings :
          (p # SampleVehicle => r = Rpm2500) /\ PerformanceData(c, p, r)
     /\ UNCHANGED aside
  \/ /\ \E req \in BagToSet(reqs), o \in Outcomes : PerformanceDataResume(req, o)
     /\ UNCHANGED aside

SampleSpec == Init /\ [][SampleNext]_vars

\* One POST for one vehicle at a time, with the subscribe and unsubscribe
\* events of the connections around it; arrival remembers the vehicle's
\* subscriber set at the time the POST arrived.
WindowNext ==
  \/ /\ \E c \in Conns : Connect(c)
     /\ UNCHANGED aside
  \/ /\ \E c \in Conns : SubscribeVehicle(c, SampleVehicle)
     /\ UNCHANGED aside
  \/ /\ \E c \in Conns : UnsubscribeVehicle(c, SampleVehicle)
     /\ UNCHANGED aside
  \/ /\ reqs = EmptyBag
     /\ RestPost(SampleVehicle, Rpm2500, ValidToken)
     /\ arrival' = SubscribersOf(vehicleConnections, SampleVehicle)
     /\ UNCHANGED crud
  \/ /\ \E req \in BagToSet(reqs), o \in Outcomes : RestResume(req, o, "T1", "T2")
     /\ UNCHANGED aside

WindowSpec == Init /\ [][WindowNext]_vars

\* The registry handlers with identifiers of two JS types that render as the
\* same text: the number 123 and the string '123'.
TextIds == {<<"number", "123">>, <<"string", "123">>}
IdNext ==
  \/ /\ \E c \in Conns : Connect(c)
     /\ UNCHANGED aside
  \/ /\ \E c \in Conns, p \in TextIds : SubscribeVehicle(c, p)
     /\ UNCHANGED aside
  \/ /\ \E c \in Conns, p \in TextIds : UnsubscribeVehicle(c, p)
     /\ UNCHANGED aside
  \/ /\ \E c \in Conns : Disconnect(c)
     /\ UNCHANGED aside

IdSpec == Init /\ [][IdNext]_vars

\* ------------------------------------------------ DTC and vehicle routes
\* POST /api/dtc with body {vehicle_id, dtc_code} (status absent, so
\* 'active'), up to the awaited select of an active DTC with the same code.
DtcPost(vehicle_id, dtc_code) ==
  /\ Arrive([op |-> "dtcPost", pc |-> "select", vehicle_id |-> vehicle_id,
              dtc_code |-> dtc_code, id |-> 0])
  /\ UNCHANGED <<vehicles, dtcs, storage, files>>

\* POST /api/dtc from the answer of the select: 400 if (existingDTC), else
\* dtcData is built and the insert is awaited.
DtcPostAfterSelect(call) ==
  /\ BagIn(call, pending) /\ call.op = "dtcPost" /\ call.pc = "select"
  /\ LET existingDTC == Single(ActiveDtcs(call.vehicle_id, call.dtc_code))
     IN  IF existingDTC # {} THEN Answer(call, "400") ELSE Await(call, "insert")
  /\ UNCHANGED <<vehicles, dtcs, storage, files>>

\* POST /api/dtc from the answer of the insert: 500 on error, else 201.
DtcPostAfterInsert(call, outcome) ==
  /\ BagIn(call, pending) /\ call.op = "dtcPost" /\ call.pc = "insert"
  /\ IF outcome = "ok"
     THEN /\ Cardinality(dtcs) < MaxRows
          /\ dtcs' = dtcs \cup {[id |-> Cardinality(dtcs) + 1,
                                  vehicle_id |-> call.vehicle_id,
                                  dtc_code |-> call.dtc_code,
                                  status |-> "active"]}
          /\ Answer(call, "201")
     ELSE /\ Answer(call, "500")
          /\ UNCHANGED dtcs
  /\ UNCHANGED <<vehicles, storage, files>>

\* PUT /api/dtc/:id with body {status: 'resolved'}, up to the awaited select.
DtcPut(id) ==
  /\ Arrive([op |-> "dtcPut", pc |-> "select", vehicle_id |-> "", dtc_code |-> "",
              id |-> id])
  /\ UNCHANGED <<vehicles, dtcs, storage, files>>

\* PUT /api/dtc/:id from the answer of the select: 404 without row, else the
\* update is awaited.
DtcPutAfterSelect(call) ==
  /\ BagIn(call, pending) /\ call.op = "dtcPut" /\ call.pc = "select"
  /\ LET existingDTC == Single({r \in dtcs : r.id = call.id})
     IN  IF existingDTC = {} THEN Answer(call, "404") ELSE Await(call, "update")
  /\ UNCHANGED <<vehicles, dtcs, storage, files>>

\* PUT /api/dtc/:id from the answer of the update: 500 on error, else 200.
DtcPutAfterUpdate(call, outcome) ==
  /\ BagIn(call, pending) /\ call.op = "dtcPut" /\ call.pc = "update"
  /\ IF outcome = "ok"
     THEN /\ dtcs' = {IF r.id = call.id THEN [r EXCEPT !.status = "resolved"] ELSE r :
                        r \in dtcs}
          /\ Answer(call, "200")
     ELSE /\ Answer(call, "500")
          /\ UNCHANGED dtcs
  /\ UNCHANGED <<vehicles, storage, files>>

\* DELETE /api/vehicle/:id, up to the awaited select of the vehicle.
VehicleDelete(id) ==
  /\ Arrive([op |-> "vehicleDelete", pc |-> "fetch", vehicle_id |-> id,
              dtc_code |-> "", id |-> 0])
  /\ UNCHANGED <<vehicles, dtcs, storage, files>>

\* DELETE /api/vehicle/:id from the answer of the select: 404 without row,
\* else the select of the vehicle's active DTCs is awaited.
VehicleDeleteAfterFetch(call) ==
  /\ BagIn(call, pending) /\ call.op = "vehicleDelete" /\ call.pc = "fetch"
  /\ IF call.vehicle_id \notin vehicles
     THEN Answer(call, "404") ELSE Await(call, "check")
  /\ UNCHANGED <<vehicles, dtcs, storage, files>>

\* DELETE /api/vehicle/:id from the answer of the select of active DTCs: 400
\* if (activeDTCs && activeDTCs.length > 0), else the delete is awaited.
VehicleDeleteAfterCheck(call) ==
  /\ BagIn(call, pending) /\ call.op = "vehicleDelete" /\ call.pc = "check"
  /\ LET activeDTCs == ActiveDtcsOf(call.vehicle_id)
     IN  IF Cardinality(activeDTCs) > 0
         THEN Answer(call, "400") ELSE Await(call, "delete")
  /\ UNCHANGED <<vehicles, dtcs, storage, files>>

\* DELETE /api/vehicle/:id from the answer of the delete: 500 on error, else
\* 200.
VehicleDeleteAfterDelete(call, outcome) ==
  /\ BagIn(call, pending) /\ call.op = "vehicleDelete" /\ call.pc = "delete"
  /\ IF outcome = "ok"
     THEN /\ vehicles' = vehicles \ {call.vehicle_id}
          /\ Answer(call, "200")
     ELSE /\ Answer(call, "500")
          /\ UNCHANGED vehicles
  /\ UNCHANGED <<dtcs, storage, files>>

DtcNext ==
  \/ /\ \E v \in Vehicles, code \in DtcCodes : DtcPost(v, code)
     /\ UNCHANGED fanout
  \/ /\ \E call \in BagToSet(pending) : DtcPostAfterSelect(call)
     /\ UNCHANGED fanout
  \/ /\ \E call \in BagToSet(pending), o \in WriteOutcomes : DtcPostAfterInsert(call, o)
     /\ UNCHANGED fanout
  \/ /\ \E id \in 1..MaxRows : DtcPut(id)
     /\ UNCHANGED fanout
  \/ /\ \E call \in BagToSet(pending) : DtcPutAfterSelect(call)
     /\ UNCHANGED fanout
  \/ /\ \E call \in BagToSet(pending), o \in WriteOutcomes : DtcPutAfterUpdate(call, o)
     /\ UNCHANGED fanout
  \/ /\ \E v \in Vehicles : VehicleDelete(v)
     /\ UNCHANGED fanout
  \/ /\ \E call \in BagToSet(pending) : VehicleDeleteAfterFetch(call)
     /\ UNCHANGED fanout
  \/ /\ \E call \in BagToSet(pending) : VehicleDeleteAfterCheck(call)
     /\ UNCHANGED fanout
  \/ /\ \E call \in BagToSet(pending), o \in WriteOutcomes :
          VehicleDeleteAfterDelete(call, o)
     /\ UNCHANGED fanout

DtcSpec == Init /\ [][DtcNext]_vars

\* ------------------------------------------------- routes/upload.js
\* The id of the record written for an upload: a uuidv4() of its own, one per
\* upload as the file name is.
FileId(path) == <<"id", path>>

\* .from('files').select('*').eq('id', id).eq('user_id', req.userId)
FileRecords(id) == {f \in files : f.id = id}

\* A path no upload has drawn yet: `${folder}/${uuidv4()}${fileExtension}`.
IsFreshPath(path) ==
  /\ path \notin storage
  /\ \A f \in files : f.file_path # path
  /\ \A call \in BagToSet(pending) : call.path # path

\* POST /api/upload/single: 400 without req.file, else up to the awaited
\* upload to storage.
UploadSingle(hasFile, path) ==
  /\ IF ~hasFile
     THEN /\ last' = [NoLast EXCEPT !.kind = "uploadSingle", !.resp = <<"400">>]
          /\ UNCHANGED pending
     ELSE /\ IsFreshPath(path)
          /\ Arrive([op |-> "uploadSingle", pc |-> "upload", path |-> path,
                      id |-> FileId(path)])
  /\ UNCHANGED <<vehicles, dtcs, storage, files>>

\* POST /api/upload/single from the answer of the upload: 500 on error, else
\* the insert of the record is awaited.
UploadAfterStore(call, outcome) ==
  /\ BagIn(call, pending) /\ call.op = "uploadSingle" /\ call.pc = "upload"
  /\ IF outcome = "ok"
     THEN /\ storage' = storage \cup {call.path}
          /\ Await(call, "insert")
     ELSE /\ Answer(call, "500")
          /\ UNCHANGED storage
  /\ UNCHANGED <<vehicles, dtcs, files>>

\* POST /api/upload/single from the answer of the insert: on dbError the
\* removal of the uploaded object is awaited, else 201.
UploadAfterInsert(call, outcome) ==
  /\ BagIn(call, pending) /\ call.op = "uploadSingle" /\ call.pc = "insert"
  /\ IF outcome = "ok"
     THEN /\ files' = files \cup {[id |-> call.id, file_path |-> call.path]}
          /\ Answer(call, "201")
     ELSE /\ Await(call, "cleanup")
          /\ UNCHANGED files
  /\ UNCHANGED <<vehicles, dtcs, storage>>

\* POST /api/upload/single from the answer of the removal: its result is not
\* read, the answer is 500.
UploadAfterCleanup(call, outcome) ==
  /\ BagIn(call, pending) /\ call.op = "uploadSingle" /\ call.pc = "cleanup"
  /\ storage' = IF outcome = "ok" THEN storage \ {call.path} ELSE storage
  /\ Answer(call, "500")
  /\ UNCHANGED <<vehicles, dtcs, files>>

\* DELETE /api/upload/files/:id, up to the awaited select of the record.
DeleteFile(id) ==
  /\ Arrive([op |-> "deleteFile", pc |-> "fetch", path |-> "", id |-> id])
  /\ UNCHANGED <<vehicles, dtcs, storage, files>>

\* DELETE /api/upload/files/:id from the answer of the select: 404 without
\* record, else the removal of file.file_path from storage is awaited.
DeleteFileAfterFetch(call) ==
  /\ BagIn(call, pending) /\ call.op = "deleteFile" /\ call.pc = "fetch"
  /\ LET file == Single(FileRecords(call.id))
     IN  IF file = {}
         THEN /\ last' = [NoLast EXCEPT !.kind = call.op, !.resp = <<"404">>]
              /\ pending' = pending (-) SetToBag({call})
         ELSE /\ last' = NoLast
              /\ pending' = (pending (-) SetToBag({call})) (+)
                   SetToBag({[call EXCEPT !.pc = "remove",
                                          !.path = (CHOOSE f \in file : TRUE).file_path]})
  /\ UNCHANGED <<vehicles, dtcs, storage, files>>

\* DELETE /api/upload/files/:id from the answer of the removal: if
\* (storageError) only logs, the delete of the record is awaited either way.
DeleteFileAfterRemove(call, outcome) ==
  /\ BagIn(call, pending) /\ call.op = "deleteFile" /\ call.pc = "remove"
  /\ IF outcome = "ok"
     THEN storage' = storage \ {call.path}
     ELSE UNCHANGED storage
  /\ Await(call, "delete")
  /\ UNCHANGED <<vehicles, dtcs, files>>

\* DELETE /api/upload/files/:id from the answer of the delete of the record:
\* 500 on dbError, else 200.
DeleteFileAfterDelete(call, outcome) ==
  /\ BagIn(call, pending) /\ call.op = "deleteFile" /\ call.pc = "delete"
  /\ IF outcome = "ok"
     THEN /\ files' = files \ FileRecords(call.id)
          /\ Answer(call, "200")
     ELSE /\ Answer(call, "500")
          /\ UNCHANGED files
  /\ UNCHANGED <<vehicles, dtcs, storage>>

UploadNext ==
  \/ /\ \E hasFile \in BOOLEAN, path \in Paths : UploadSingle(hasFile, path)
     /\ UNCHANGED fanout
  \/ /\ \E call \in BagToSet(pending), o \in WriteOutcomes : UploadAfterStore(call, o)
     /\ UNCHANGED fanout
  \/ /\ \E call \in BagToSet(pending), o \in WriteOutcomes : UploadAfterInsert(call, o)
     /\ UNCHANGED fanout
  \/ /\ \E call \in BagToSet(pending), o \in WriteOutcomes : UploadAfterCleanup(call, o)
     /\ UNCHANGED fanout
  \/ /\ \E path \in Paths : DeleteFile(FileId(path))
     /\ UNCHANGED fanout
  \/ /\ \E call \in BagToSet(pending) : DeleteFileAfterFetch(call)
     /\ UNCHANGED fanout
  \/ /\ \E call \in BagToSet(pending), o \in WriteOutcomes :
          DeleteFileAfterRemove(call, o)
     /\ UNCHANGED fanout
  \/ /\ \E call \in BagToSet(pending), o \in WriteOutcomes :
          DeleteFileAfterDelete(call, o)
     /\ UNCHANGED fanout

UploadSpec == Init /\ [][UploadNext]_vars

\* ------------------------------------------------------------ type check
RegistryWellFormed ==
  /\ \A i, j \in 1..Len(vehicleConnections) :
       vehicleConnections[i].key = vehicleConnections[j].key => i = j
  /\ \A i \in 1..Len(vehicleConnections) :
       /\ vehicleConnections[i].key \in VehicleIds
       /\ vehicleConnections[i].val \subseteq Conns

\* ----------------------------------------------------------- shorthands
Subs(v) == SubscribersOf(vehicleConnections, v)
NoEmptySet ==
  \A i \in 1..Len(vehicleConnections) : vehicleConnections[i].val # {}
NoClosedMember ==
  \A c \in Conns, v \in VehicleIds : sockets[c] = "closed" => c \notin Subs(v)
\* The step just taken finished a REST ingest whose write succeeded.  No
\* handler changes the registry or lastOp in that step, so in such a state
\* both are what the broadcast step saw.
RestStored == last.kind = "rest" /\ last.outcome = "ok"
IngestAnswered == last.kind \in {"rest", "socket"}

\* ------------------------------------------------------------------ claims
\* C1: after an ingest for vehicle V whose persistence succeeded, every
\* connection in V's subscriber set at broadcast time has been sent exactly
\* one message for that ingest, and every other connection none.
C1_ExactlyOnePerSubscriber ==
  RestStored =>
    \A c \in Conns : last.sent[c] = IF c \in Subs(last.vid) THEN 1 ELSE 0

\* C2: when the persistence gateway reports failure (error object or rejected
\* promise), the caller gets exactly one answer and it is the failure one
\* (500, respectively data-error), the broadcast loop is not entered and no
\* message is sent whatever the subscribers are, and one write was attempted.
C2_PersistenceFailure ==
  (IngestAnswered /\ last.outcome \in {"error", "throw"}) =>
    /\ last.resp = <<IF last.kind = "rest" THEN "500" ELSE "data-error">>
    /\ last.visited = {}
    /\ \A c \in Conns : last.sent[c] = 0
    /\ last.writes = 1
    /\ \A k \in BagToSet(reqs) : k.writes = 1

C2_Witness ==
  /\ last.kind = "rest"
  /\ last.outcome = "error"
  /\ Cardinality(Subs(last.vid)) = 2

\* C3: every key of the registry maps to a non-empty set.
C3_NoEmptySet == NoEmptySet

C3_Witness ==
  /\ last.kind = "disconnect"
  /\ \E v \in last.removedFrom : ~MapHas(vehicleConnections, v)
  /\ vehicleConnections # <<>>

\* C4: a disconnected connection is in no vehicle's set, and a vehicle whose
\* set the disconnect emptied is no longer a key, also when the connection was
\* subscribed to several vehicles at once.
C4_DropConnection ==
  /\ NoClosedMember
  /\ last.kind = "disconnect" =>
       \A v \in last.removedFrom :
         Subs(v) = {} => ~MapHas(vehicleConnections, v)

C4_Witness ==
  /\ last.kind = "disconnect"
  /\ last.removedFrom = VehicleIds
  /\ vehicleConnections = <<>>

\* C5: for every (vehicle, connection) pair of an open connection the
\* membership is the effect of the pair's last call: member after a final
\* subscribe, non-member after a final unsubscribe; and a second subscribe
\* leaves the registry as the first one made it.
C5_LastCallWins ==
  \A v \in VehicleIds, c \in Conns :
    sockets[c] = "open" =>
      /\ (lastOp[v][c] = "sub") <=> (c \in Subs(v))
      /\ LET once == SubscribeRegistry(vehicleConnections, v, c)
         IN  SubscribeRegistry(once, v, c) = once

C5_Witness ==
  \E v \in VehicleIds, c, d \in Conns :
    /\ c # d /\ sockets[c] = "open" /\ sockets[d] = "open"
    /\ lastOp[v][c] = "sub" /\ c \in Subs(v)
    /\ lastOp[v][d] = "unsub" /\ d \notin Subs(v)

\* C6: c is a member of V's set only while c's own last registry event for V
\* is a subscribe and c is connected, and the membership of a pair changes
\* only in a step in which that connection's own event for the pair happens
\* (no event of another connection and no ingest changes it).
C6_OwnEventsOnly ==
  /\ [](\A v \in VehicleIds, c \in Conns :
          c \in Subs(v) => lastOp[v][c] = "sub" /\ sockets[c] = "open")
  /\ [][\/ vehicleConnections' = vehicleConnections
        \/ \A v \in VehicleIds, c \in Conns :
             (c \in Subs(v)) # (c \in SubscribersOf(vehicleConnections', v)) =>
                /\ lastOp'[v][c] # lastOp[v][c]
                /\ (lastOp'[v][c] = "sub") <=> (c \in SubscribersOf(vehicleConnections', v))]_vars

C6_Witness ==
  \E v \in VehicleIds, c \in Conns :
    /\ last.kind = "disconnect" /\ last.id # c
    /\ v \in last.removedFrom
    /\ c \in Subs(v)

\* C7: an ingest for V whose write succeeded does not consider, and sends
\* nothing to, a connection whose last event for V is an unsubscribe or a
\* disconnect, and its broadcast step raises no error.
C7_NoDeliveryAfterRemoval ==
  RestStored =>
    /\ \A c \in Conns :
         lastOp[last.vid][c] = "unsub" =>
           c \notin last.visited /\ last.sent[c] = 0
    /\ ~last.raised

C7_Witness ==
  /\ RestStored
  /\ last.hadDrop
  /\ \E c \in Conns : sockets[c] = "open" /\ lastOp[last.vid][c] = "unsub"
  /\ last.visited = {}

\* C8: when a subscriber of V disconnected while the ingest for V was
\* suspended, the resumed ingest does not consider any disconnected
\* connection, raises no error, answers the caller with success only, and the
\* registry has no empty set and no disconnected member.
C8_DisconnectInFlight ==
  (RestStored /\ last.hadDrop) =>
    /\ \A c \in Conns :
         sockets[c] = "closed" => c \notin last.visited /\ last.sent[c] = 0
    /\ ~last.raised
    /\ last.resp = <<"201">>
    /\ NoEmptySet
    /\ NoClosedMember

C8_Witness ==
  /\ RestStored
  /\ last.hadDrop
  /\ last.visited # {}

\* C9: every ingest call that carries a sample (a vehicle identifier that
\* passes the check of its path) makes exactly one write attempt, on every
\* path, and sends at most one message to each connection.
C9_OneWriteNoRetry ==
  /\ \A k \in BagToSet(reqs) : k.writes = 1
  /\ (IngestAnswered /\ last.outcome # "invalid") =>
       /\ last.writes = 1
       /\ \A c \in Conns : last.sent[c] <= 1

C9_Witness ==
  /\ last.kind = "socket"
  /\ last.outcome = "throw"
  /\ last.writes = 1

\* C10: on successful persistence the success response is given before the
\* broadcast step starts, it stays the only response of the call, and the
\* write is made once.
C10_ResponseBeforeBroadcast ==
  RestStored =>
    /\ last.respBeforeBroadcast = <<"201">>
    /\ last.resp = <<"201">>
    /\ last.writes = 1

C10_Witness ==
  /\ RestStored
  /\ Cardinality(last.visited) = 2

\* C11: after an ingest through the socket message 'performance-data' whose
\* write succeeded, every subscriber of its vehicle has been sent one message,
\* as after a REST ingest.
C11_SocketIngestBroadcasts ==
  (last.kind = "socket" /\ last.outcome = "ok") =>
    \A c \in Subs(last.vid) : last.sent[c] = 1

\* C14: a subscribe-vehicle whose identifier is missing or the empty string
\* is answered with the error event and leaves the registry and the rooms as
\* they were, an unsubscribe-vehicle without identifier changes nothing
\* either, and no value that is not a vehicle identifier is ever a key.
C14_InvalidSubscription ==
  /\ [](/\ \A i \in 1..Len(vehicleConnections) :
             vehicleConnections[i].key \in VehicleIds
        /\ (last.kind = "subscribe" /\ last.vid \notin VehicleIds) =>
             last.resp = <<"error">>
        /\ (last.kind = "unsubscribe" /\ last.vid \notin VehicleIds) =>
             last.resp = <<>>)
  /\ [][(last'.kind \in {"subscribe", "unsubscribe"}
           /\ last'.vid \notin VehicleIds) =>
          /\ vehicleConnections' = vehicleConnections
          /\ rooms' = rooms]_vars

C14_Witness ==
  /\ last.kind = "subscribe"
  /\ last.vid = EmptyString
  /\ last.resp = <<"error">>
  /\ vehicleConnections # <<>>

\* C15: the broadcast step of an ingest whose write succeeded raises no
\* error, sends nothing to a subscriber whose connection is not open, and
\* sends the message to every subscriber it visits whose connection is open.
C15_StaleSkippedOthersServed ==
  RestStored =>
    /\ ~last.raised
    /\ \A c \in last.visited :
         IF sockets[c] = "open" THEN last.sent[c] = 1 ELSE last.sent[c] = 0

\* C16: a registry mutation and its cleanup are one step.  In every state (so
\* for every handler and every resumed ingest, in every interleaving) a key
\* has a non-empty set, an open connection whose last event for V is a
\* subscribe is in V's set with V a key, and the set an ingest walks is the
\* current set, without a removed member.  A step that takes a connection out
\* of V's set leaves exactly the other members, and V stays a key iff one is
\* left; a subscribe step adds its connection to exactly the members present.
C16_AtomicMutation ==
  /\ [](/\ NoEmptySet
        /\ \A v \in VehicleIds, c \in Conns :
             (sockets[c] = "open" /\ lastOp[v][c] = "sub") =>
               c \in Subs(v) /\ MapHas(vehicleConnections, v)
        /\ RestStored =>
             /\ last.visited = Subs(last.vid)
             /\ \A c \in last.visited :
                  sockets[c] = "open" /\ lastOp[last.vid][c] = "sub")
  /\ [][\A v \in VehicleIds :
          LET after == SubscribersOf(vehicleConnections', v)
          IN  /\ (last'.kind \in {"unsubscribe", "disconnect"}
                    /\ v \in last'.removedFrom) =>
                   /\ after = Subs(v) \ {last'.id}
                   /\ MapHas(vehicleConnections', v) <=> after # {}
              /\ (last'.kind = "subscribe" /\ last'.vid = v) =>
                   /\ after = Subs(v) \cup {last'.id}
                   /\ MapHas(vehicleConnections', v)]_vars

C16_Witness ==
  \E v \in VehicleIds, c \in Conns :
    /\ last.kind \in {"unsubscribe", "disconnect"}
    /\ v \in last.removedFrom
    /\ c # last.id
    /\ Subs(v) = {c}
    /\ \E k \in BagToSet(reqs) : k.via = "rest" /\ k.vid = v

\* C17: the registry events of one connection take effect in the order the
\* connection sent them.  After its unsubscribe for V the connection is not in
\* V's set, and while an ingest of the same connection is suspended, and when
\* that ingest resumes, the connection's membership for every vehicle is the
\* effect of its latest subscribe / unsubscribe for that vehicle.
C17_OwnOrderKept ==
  /\ (last.kind = "unsubscribe" /\ last.vid \in VehicleIds) =>
       last.id \notin Subs(last.vid)
  /\ \A k \in BagToSet(reqs) :
       (k.via = "socket" /\ sockets[k.from] = "open") =>
         \A v \in VehicleIds : (k.from \in Subs(v)) <=> (lastOp[v][k.from] = "sub")
  /\ (last.kind = "socket" /\ sockets[last.id] = "open") =>
       \A v \in VehicleIds : (last.id \in Subs(v)) <=> (lastOp[v][last.id] = "sub")

C17_Witness ==
  /\ last.kind = "unsubscribe"
  /\ last.removedFrom = {last.vid}
  /\ last.id \notin Subs(last.vid)
  /\ \E k \in BagToSet(reqs) : k.via = "socket" /\ k.from = last.id

\* C18: the close of a connection runs the disconnect handler once, for that
\* connection and in the step of the close; a closed connection stays closed,
\* its disconnect handler never runs again, and its id is in no vehicle's set
\* from then on, also while an ingest it sent is still suspended and after
\* that ingest has resumed.
C18_DropOnceNeverBack ==
  /\ [](/\ \A c \in Conns, v \in VehicleIds :
             sockets[c] = "closed" => c \notin Subs(v) /\ lastOp[v][c] = "unsub"
        /\ last.kind = "disconnect" => sockets[last.id] = "closed")
  /\ [][\A c \in Conns :
          /\ (sockets[c] = "open" /\ sockets'[c] = "closed") =>
               last'.kind = "disconnect" /\ last'.id = c
          /\ sockets[c] = "closed" =>
               /\ sockets'[c] = "closed"
               /\ ~(last'.kind \in {"disconnect", "subscribe"} /\ last'.id = c)
               /\ \A v \in VehicleIds :
                    c \notin SubscribersOf(vehicleConnections', v)]_vars

C18_Witness ==
  /\ last.kind = "disconnect"
  /\ last.removedFrom # {}
  /\ \E k \in BagToSet(reqs) : k.via = "socket" /\ k.from = last.id
  /\ \A v \in VehicleIds : last.id \notin Subs(v)

\* C19: ingest calls in flight together are independent.  Every suspended
\* call has made one write; a call that ends gives one answer, the one of its
\* own write's outcome, whatever the other calls in flight are and however
\* they ended; and a call whose write succeeded has sent its own message to
\* each subscriber of its vehicle.
C19_IndependentCalls ==
  /\ \A k \in BagToSet(reqs) : k.writes = 1
  /\ (IngestAnswered /\ last.outcome # "invalid") =>
       /\ last.writes = 1
       /\ last.resp =
            <<IF last.kind = "rest"
              THEN (IF last.outcome = "ok" THEN "201" ELSE "500")
              ELSE (IF last.outcome = "ok" THEN "data-stored" ELSE "data-error")>>
       /\ last.outcome # "ok" => \A c \in Conns : last.sent[c] = 0
       /\ last.outcome = "ok" =>
            \A c \in Conns : last.sent[c] = IF c \in Subs(last.vid) THEN 1 ELSE 0

\* C20: a subscribe-vehicle or unsubscribe-vehicle of connection c for
\* vehicle V changes nothing but c's membership in V's set: every other
\* vehicle keeps its entry and its set, every other connection keeps its
\* membership in V's set, V is a key afterwards iff its set has a member, and
\* connections and suspended calls are untouched.  An unsubscribe of a pair
\* that is not subscribed leaves the whole Map as it was.
C20_FrameOfSubscribeUnsubscribe ==
  [][(last'.kind \in {"subscribe", "unsubscribe"} /\ last'.vid \in VehicleIds) =>
       /\ \A v \in VehicleIds :
            /\ v # last'.vid =>
                 /\ MapHas(vehicleConnections', v) <=> MapHas(vehicleConnections, v)
                 /\ SubscribersOf(vehicleConnections', v) = Subs(v)
            /\ SubscribersOf(vehicleConnections', v) \ {last'.id} = Subs(v) \ {last'.id}
       /\ MapHas(vehicleConnections', last'.vid) <=>
            SubscribersOf(vehicleConnections', last'.vid) # {}
       /\ (last'.id \in SubscribersOf(vehicleConnections', last'.vid)) <=>
            last'.kind = "subscribe"
       /\ (last'.kind = "unsubscribe" /\ last'.id \notin Subs(last'.vid)) =>
            vehicleConnections' = vehicleConnections
       /\ sockets' = sockets /\ reqs' = reqs]_vars

C20_Witness ==
  /\ last.kind = "unsubscribe"
  /\ last.vid \in VehicleIds
  /\ last.removedFrom = {}
  /\ ~MapHas(vehicleConnections, last.vid)
  /\ \E v \in VehicleIds : Cardinality(Subs(v)) = 2

\* C12: the message built for the broadcast of an ingest carries the
\* timestamp of the stored row and the fields of the sample as they came in
\* (vehicle id, reading).
C12_MessageCarriesStoredTimestamp ==
  (RestStored /\ last.message # <<>>) =>
    /\ last.message[1].timestamp = last.stored
    /\ last.message[1].vehicle_id = last.vid
    /\ last.message[1].rpm = last.rpm

C21_IngestLeavesRegistry ==
  [][(last'.kind \in {"rest", "socket"} \/ (last'.kind = "none" /\ reqs' # reqs)) =>
       /\ vehicleConnections' = vehicleConnections
       /\ rooms' = rooms
       /\ sockets' = sockets
       /\ lastOp' = lastOp
       /\ (last'.kind \in {"rest", "socket"} /\ last'.outcome # "invalid") =>
            /\ BagCardinality(reqs') = BagCardinality(reqs) - 1
            /\ reqs' \sqsubseteq reqs
       /\ (last'.kind \in {"rest", "socket"} /\ last'.outcome = "invalid") =>
            reqs' = reqs
       /\ last'.kind = "none" =>
            /\ BagCardinality(reqs') = BagCardinality(reqs) + 1
            /\ reqs \sqsubseteq reqs']_vars

C21_Witness ==
  /\ last.kind = "rest"
  /\ last.outcome = "throw"
  /\ reqs # EmptyBag
  /\ \E v \in VehicleIds : Cardinality(Subs(v)) = 2

\* C22: a POST ingest without a valid access token is rejected: no write is
\* issued for it, so every REST call awaiting the gateway carries a valid
\* token, and no broadcast is made for it.
C22_RestIngestNeedsToken ==
  \A k \in BagToSet(reqs) : k.via = "rest" => k.token = ValidToken

\* C23: an ingest whose vehicle identifier is missing or invalid (socket: a
\* falsy vehicle_id; REST: vehicle_id absent, empty or no UUID) makes no write
\* attempt and no broadcast, and its caller gets the failure answer and only
\* it ('data-error', respectively 400); no such call is ever awaiting the
\* gateway.
C23_InvalidIdStopsIngest ==
  /\ \A k \in BagToSet(reqs) :
       /\ k.via = "rest" => k.vid \in VehicleIds
       /\ k.via = "socket" => k.vid \notin {Missing, EmptyString}
  /\ (last.kind = "rest" /\ last.vid \notin VehicleIds) =>
       /\ last.outcome = "invalid" /\ last.resp = <<"400">>
  /\ (last.kind = "socket" /\ last.vid \in {Missing, EmptyString}) =>
       /\ last.outcome = "invalid" /\ last.resp = <<"data-error">>
  /\ (IngestAnswered /\ last.outcome = "invalid") =>
       /\ last.writes = 0
       /\ last.row = NotPrepared
       /\ last.visited = {} /\ last.message = <<>>
       /\ \A c \in Conns : last.sent[c] = 0

C23_Witness ==
  /\ last.kind = "rest"
  /\ last.vid = NotUuid
  /\ last.resp = <<"400">>
  /\ Subs(SampleVehicle) # {}

\* C24: an ingest call resumed after the gateway's answer gives its caller
\* one outcome and no second one: a REST call one response, 201 exactly when
\* the write succeeded and 500 otherwise; a socket call one event to its own
\* socket, data-stored exactly when the write succeeded and data-error
\* otherwise, and nothing to any other connection.
C24_ExactlyOneOutcome ==
  (IngestAnswered /\ last.outcome \in Outcomes) =>
    /\ Len(last.resp) = 1
    /\ last.kind = "rest" =>
         /\ last.resp[1] \in {"201", "500"}
         /\ last.resp[1] = "201" <=> last.outcome = "ok"
         /\ last.id = NoConn
    /\ last.kind = "socket" =>
         /\ last.resp[1] \in {"data-stored", "data-error"}
         /\ last.resp[1] = "data-stored" <=> last.outcome = "ok"
         /\ last.id \in Conns
         /\ \A c \in Conns : last.sent[c] = 0

C24_Witness ==
  /\ last.kind = "socket"
  /\ last.outcome = "ok"
  /\ last.resp = <<"data-stored">>
  /\ \E c \in Subs(last.vid) : c # last.id

\* C25: on both paths a reading that is the number 0 in the input is the
\* number 0 in the row handed to the insert.
C25_ZeroStaysZero ==
  \A k \in BagToSet(reqs) : k.rpm = Zero => k.row = Zero

\* C26: the broadcast step of a POST for V walks the set V has in the
\* registry when the awaited write has completed, not the set V had when the
\* request arrived: a connection that subscribed to V in between is in the
\* walk, one that unsubscribed in between is not and is sent nothing.
C26_SetAtCompletion ==
  RestStored =>
    /\ last.visited = Subs(last.vid)
    /\ \A c \in Conns :
         /\ (c \notin arrival /\ lastOp[last.vid][c] = "sub") => c \in last.visited
         /\ (c \in arrival /\ lastOp[last.vid][c] = "unsub") =>
              c \notin last.visited /\ last.sent[c] = 0

C26_Witness ==
  /\ RestStored
  /\ \E c \in last.visited : c \notin arrival
  /\ \E c \in arrival : c \notin last.visited

\* C27: after any subscribe, unsubscribe and disconnect events a connection is
\* in the room of an identifier exactly when it is in the registry's set for
\* that identifier, for every identifier value a client can send.
C27_RoomsAgreeWithRegistry ==
  \A c \in Conns, p \in VehicleIds \cup TextIds :
    (<<RoomName(p), c>> \in rooms) <=> (c \in Subs(p))

\* C28: at any time at most one row of vehicle_dtcs with status 'active'
\* exists for a (vehicle_id, dtc_code) pair.
C28_OneActiveDtcPerCode ==
  \A v \in Vehicles, code \in DtcCodes : Cardinality(ActiveDtcs(v, code)) <= 1

\* C29: no row of vehicle_dtcs with status 'active' refers to a vehicle that
\* has been deleted.
C29_NoActiveDtcOfDeletedVehicle ==
  \A r \in dtcs : r.status = "active" => r.vehicle_id \in vehicles

\* C30: once every single-upload and delete request has completed, an object
\* exists in storage exactly when a record of table files has its path.
C30_StorageMatchesFiles ==
  pending = EmptyBag =>
    \A p \in Paths : (p \in storage) <=> (\E f \in files : f.file_path = p)

====
